---- MODULE Spec2Model ----
(***************************************************************************)
(* Model of cpp_ingestor/src/main.cpp: one producer (main) reads log       *)
(* lines, parses them and pushes the records into a ThreadSafeQueue; N     *)
(* worker threads pop records and write them through a shared              *)
(* OutputWriter.  Strings are sequences of one-character strings.          *)
(***************************************************************************)
EXTENDS Integers, Sequences, FiniteSets, TLC

\* ------------------------------------------------------------------ bounds

\* Largest number of lines std::getline delivers from the input file.
MaxLines == 2

\* Largest numeric value of the WORKER_COUNT environment variable.
MaxWorkerEnv == 2

\* Largest length of a line when parse_line is explored on arbitrary lines.
MaxLineLen == 9

\* ------------------------------------------------------- program constants

\* main.cpp:113, the worker count used when WORKER_COUNT is not set.
DefaultWorkerCount == 4

\* main.cpp:113, the lower clamp std::max(1, ...).
MinWorkerCount == 1

\* ------------------------------------------------------------------ strings

IsSpace(c) == c \in {" ", "\t"}

\* operator>> first skips leading whitespace: the first index >= i that is
\* past the end or holds a non-space character.
SkipWs(s, i) ==
    CHOOSE j \in i..(Len(s) + 1) :
        /\ (j = Len(s) + 1 \/ ~IsSpace(s[j]))
        /\ \A k \in i..(j - 1) : IsSpace(s[k])

\* ... and then reads characters up to the next whitespace or the end.
TokEnd(s, i) ==
    CHOOSE j \in i..(Len(s) + 1) :
        /\ (j = Len(s) + 1 \/ IsSpace(s[j]))
        /\ \A k \in i..(j - 1) : ~IsSpace(s[k])

\* iss >> token, starting at position i: fails when only whitespace is left.
Extract(s, i) ==
    LET b == SkipWs(s, i)
        e == TokEnd(s, b)
    IN  [ok |-> b <= Len(s), tok |-> SubSeq(s, b, e - 1), pos |-> e]

\* struct LogEntry
LogEntry(ts, lv, sv, msg) ==
    [timestamp |-> ts, level |-> lv, service |-> sv, message |-> msg]

\* A default-constructed LogEntry: four empty strings.
EmptyEntry == LogEntry(<<>>, <<>>, <<>>, <<>>)

\* Mutant: every leading space of the remainder is removed.
StripOneSpace_all(rest) == SubSeq(rest, SkipWs(rest, 1), Len(rest))

\* Lines 94-96: if the remainder starts with a space, erase that one character.
StripOneSpace(rest) ==
    IF rest # <<>> /\ rest[1] = " " THEN Tail(rest) ELSE rest

\* bool parse_line(const std::string &line, LogEntry &entry)
parse_line(line) ==
    LET d  == Extract(line, 1)
        t  == Extract(line, d.pos)
        lv == Extract(line, t.pos)
        sv == Extract(line, lv.pos)
    IN  IF ~(d.ok /\ t.ok /\ lv.ok /\ sv.ok)
        THEN [ok |-> FALSE, entry |-> EmptyEntry]
        ELSE LET rest == SubSeq(line, sv.pos, Len(line))
                 msg  == StripOneSpace(rest)
             IN  [ok |-> TRUE,
                  entry |-> LogEntry(d.tok \o <<" ">> \o t.tok, lv.tok, sv.tok, msg)]

\* The lines the input file may hold.
LineA == <<"d", " ", "t", " ", "I", " ", "s", " ", "m">>
LineB == <<"d", " ", "t", " ", "E", " ", "s">>
LineBad == <<"b", " ", "l">>
LineEmpty == <<>>
InputLines == {LineA, LineB, LineBad, LineEmpty}

\* The records the input lines parse to.
Entries == {parse_line(l).entry : l \in {x \in InputLines : parse_line(x).ok}}


\* ------------------------------------------------------------ configuration

\* A value of the WORKER_COUNT environment variable: unset, a text that is
\* not a number, or the decimal text of val.
EnvUnset == [set |-> FALSE, numeric |-> FALSE, val |-> 0]
EnvText == [set |-> TRUE, numeric |-> FALSE, val |-> 0]
EnvNumber(n) == [set |-> TRUE, numeric |-> TRUE, val |-> n]
\* The values explored when WORKER_COUNT is set, and all values.  The pipeline
\* is explored with WORKER_COUNT set, which keeps the number of threads
\* within MaxWorkerEnv.
WorkerEnvValues == {EnvText} \cup {EnvNumber(n) : n \in (-1)..MaxWorkerEnv}
AllWorkerEnvValues == WorkerEnvValues \cup {EnvUnset}

\* std::atoi: the number, or 0 for a text that does not start with one.
atoi(env) == IF env.numeric THEN env.val ELSE 0

Max(a, b) == IF a >= b THEN a ELSE b

\* int worker_count = worker_env ? std::max(1, std::atoi(worker_env)) : 4;
WorkerCountOf(env) ==
    IF env.set THEN Max(MinWorkerCount, atoi(env)) ELSE DefaultWorkerCount

\* The most threads any configuration creates, and their identities.
MaxWorkers == Max(DefaultWorkerCount, Max(MinWorkerCount, MaxWorkerEnv))
WorkerIds == 0..(MaxWorkers - 1)

\* OUTPUT_FILE_PATH: not given (empty path), a path that opens, one that does not.
OutputPaths == {"", "openable", "unopenable"}

\* OutputWriter::OutputWriter: the file when a non-empty path opens, else std::cout.
FileOpens(path) == path = "openable"
\* Mutant: a path that was given is used even when it does not open.
TargetOf_noFallback(path) == IF path # "" THEN "file" ELSE "cout"

TargetOf(path) == IF path # "" /\ FileOpens(path) THEN "file" ELSE "cout"

\* The constructor's diagnostic on std::cerr.
Diag(kind, text) == [kind |-> kind, text |-> text]
ConstructorDiag(path) ==
    IF path # "" /\ ~FileOpens(path)
    THEN <<Diag("Unable to open output file", <<>>)>>
    ELSE <<>>

\* ---------------------------------------------------------------- threads

Free == <<"free">>
MainThread == <<"main">>
WorkerThread(w) == <<"worker", w>>

\* One item inserted into an output stream by operator<<.
Piece(kind, e, w) == [kind |-> kind, entry |-> e, worker |-> w]

VARIABLES
    worker_env,     \* getenv("WORKER_COUNT")
    output_path,    \* getenv("OUTPUT_FILE_PATH")
    infile_opens,   \* whether std::ifstream infile(log_file) opens
    worker_count,   \* main's worker_count
    target_,        \* OutputWriter::target_ : "cout" or "file"
    sink_mutex,     \* OutputWriter::mutex_ : its owner, or Free
    queue_,         \* ThreadSafeQueue::queue_
    finished_,      \* ThreadSafeQueue::finished_
    mutex_,         \* ThreadSafeQueue::mutex_ : its owner, or Free
    pc,             \* each worker's position in worker_loop / pop / write
    entry,          \* each worker's local LogEntry entry
    mpc,            \* main's position
    spawned,        \* main's loop variable i of the spawning loop
    joined,         \* how many workers main has joined
    nread,          \* how many lines std::getline has delivered
    lines,          \* history: the lines std::getline has delivered, in order
    mentry,         \* main's local LogEntry entry of the reading loop
    cout_,          \* what has been inserted into std::cout
    file_,          \* what has been inserted into OutputWriter::file_
    flushed,        \* how many pieces of the target flush() has delivered
    cerr_,          \* what has been inserted into std::cerr
    exit_code,      \* main's return value, -1 while it runs
    pushed,         \* history: the records pushed, in order
    popped,         \* history: the records dequeued, in order
    popped_by,      \* history: the records each worker dequeued, in order
    written_by      \* history: the records each worker rendered, in order

vars == <<worker_env, output_path, infile_opens, worker_count, target_, sink_mutex,
          queue_, finished_, mutex_, pc, entry, mpc, spawned, joined, nread,
          lines, mentry, cout_, file_, flushed, cerr_, exit_code, pushed, popped,
          popped_by, written_by>>

configVars == <<worker_env, output_path, infile_opens, worker_count, target_>>
queueVars == <<queue_, finished_, mutex_>>
mainVars == <<mpc, spawned, joined, nread, lines, mentry, exit_code>>
streamVars == <<cout_, file_, flushed, written_by>>

\* The state when main reaches the spawning loop (line 121): the environment
\* is read, the queue and the writer are constructed, no thread runs yet.
Init ==
    /\ worker_env \in WorkerEnvValues
    /\ output_path \in OutputPaths
    /\ infile_opens \in BOOLEAN
    /\ worker_count = WorkerCountOf(worker_env)
    /\ target_ = TargetOf(output_path)
    /\ sink_mutex = Free
    /\ queue_ = <<>>
    /\ finished_ = FALSE
    /\ mutex_ = Free
    /\ pc = [w \in WorkerIds |-> "unborn"]
    /\ entry = [w \in WorkerIds |-> EmptyEntry]
    /\ mpc = "spawn"
    /\ spawned = 0
    /\ joined = 0
    /\ nread = 0
    /\ lines = <<>>
    /\ mentry = EmptyEntry
    /\ cout_ = <<>>
    /\ file_ = <<>>
    /\ flushed = 0
    /\ cerr_ = ConstructorDiag(output_path)
    /\ exit_code = -1
    /\ pushed = <<>>
    /\ popped = <<>>
    /\ popped_by = [w \in WorkerIds |-> <<>>]
    /\ written_by = [w \in WorkerIds |-> <<>>]

\* ---------------------------------------------------- condition variable

\* The consumers blocked in cv_.wait.
Waiters == {w \in WorkerIds : pc[w] = "wait"}

\* cv_.notify_one(): the sets of consumers it may wake.
NotifyOne(W) == IF W = {} THEN {{}} ELSE {{w} : w \in W}

\* cv_.notify_all(): the set of consumers it wakes.
NotifyAll(W) == {W}

\* Mutant: push notifies nobody.
PushNotify_none(W) == {{}}

\* The notification push makes (line 26).
PushNotify(W) == NotifyOne(W)

\* Mutant: mark_finished wakes only one consumer.
MarkFinishedNotify_one(W) == NotifyOne(W)

\* The notification mark_finished makes (line 43).
MarkFinishedNotify(W) == NotifyAll(W)

\* A woken consumer leaves the wait and has to reacquire the mutex.
Wake(woken) == [w \in WorkerIds |-> IF w \in woken THEN "relock" ELSE pc[w]]

\* Mutant: the wait ignores the finished flag.
WaitPred_ignoresFinished(q, fin) == q # <<>>

\* The predicate of cv_.wait (line 31).
WaitPred(q, fin) == fin \/ q # <<>>

\* Mutant: pop stops as soon as the queue is marked finished.
PopReturnsFalse_whenFinished(q, fin) == fin

\* Mutant: pop also gives up on a queue that is empty but not finished.
PopReturnsFalse_early(q, fin) == q = <<>> \/ ~fin

\* Mutant: pop does not test for an empty queue after the wait.
PopReturnsFalse_never(q, fin) == FALSE

\* The test that makes pop return false (line 32).
PopReturnsFalse(q, fin) == q = <<>>

\* Mutant: push inserts at the front.
Enqueue_front(q, e) == <<e>> \o q

\* queue_.push(entry) (line 25).
Enqueue(q, e) == Append(q, e)

\* queue_.front() (line 35).
Front(q) == Head(q)

\* Mutant: pop leaves the front element in the queue.
Dequeue_keeps(q) == q

\* queue_.pop() (line 36).
Dequeue(q) == Tail(q)

\* Mutant: pop does not assign the front element to out.
PopOut_unassigned(old, front) == old

\* out = queue_.front() (line 35): the caller's entry after the assignment.
PopOut(old, front) == front

\* Mutant: the consumer keeps the mutex while it is blocked.
MutexWhileWaiting_held(owner) == owner

\* cv_.wait (line 31) releases the mutex while the thread is blocked.
MutexWhileWaiting(owner) == Free

\* Mutant: pop returns with the mutex still locked.
MutexAfterPop_held(owner) == owner

\* pop's unique_lock releases the mutex when pop returns (lines 33, 37).
MutexAfterPop(owner) == Free

\* Mutant: main does not wait for the worker.
Joinable_always(p) == TRUE

\* t.join() (lines 130, 147) returns once the thread's function has returned.
Joinable(p) == p = "done"

\* Mutant: mark_finished flips the flag.
SetFinished_toggle(fin) == ~fin

\* finished_ = true (line 42).
SetFinished(fin) == TRUE

\* Mutant: mark_finished is called inside the reading loop, which reads on.
AfterMarkFinished_readsOn == "read"

\* Where main goes on after mark_finished returns: the joins (lines 129, 146).
AfterMarkFinished == "join"

\* Mutant: main returns 0 on every path.
ExitCodeOf_zero(opens) == 0

\* main's return value (lines 132 and 151).
ExitCodeOf(opens) == IF opens THEN 0 ELSE 1


\* ----------------------------------------------- ThreadSafeQueue::pop (29-38)

\* std::unique_lock<std::mutex> lock(mutex_);
PopLock(w) ==
    /\ pc[w] = "pop"
    /\ mutex_ = Free
    /\ mutex_' = WorkerThread(w)
    /\ pc' = [pc EXCEPT ![w] = "locked"]
    /\ UNCHANGED <<configVars, sink_mutex, queue_, finished_, entry, mainVars,
                   streamVars, cerr_, pushed, popped, popped_by>>

\* cv_.wait(lock, pred): with the mutex held, evaluate the predicate; when it
\* is false release the mutex and block, else go on to line 32.
PopWait(w) ==
    /\ pc[w] = "locked"
    /\ mutex_ = WorkerThread(w)
    /\ IF WaitPred(queue_, finished_)
       THEN /\ pc' = [pc EXCEPT ![w] = "test"]
            /\ UNCHANGED mutex_
       ELSE /\ pc' = [pc EXCEPT ![w] = "wait"]
            /\ mutex_' = MutexWhileWaiting(mutex_)
    /\ UNCHANGED <<configVars, sink_mutex, queue_, finished_, entry, mainVars,
                   streamVars, cerr_, pushed, popped, popped_by>>

\* A condition variable may wake a waiting thread without any notification.
SpuriousWake(w) ==
    /\ pc[w] = "wait"
    /\ pc' = [pc EXCEPT ![w] = "relock"]
    /\ UNCHANGED <<configVars, sink_mutex, queueVars, entry, mainVars,
                   streamVars, cerr_, pushed, popped, popped_by>>

\* A woken thread reacquires the mutex inside cv_.wait, then re-evaluates
\* the predicate.
PopRelock(w) ==
    /\ pc[w] = "relock"
    /\ mutex_ = Free
    /\ mutex_' = WorkerThread(w)
    /\ pc' = [pc EXCEPT ![w] = "locked"]
    /\ UNCHANGED <<configVars, sink_mutex, queue_, finished_, entry, mainVars,
                   streamVars, cerr_, pushed, popped, popped_by>>

\* The values queue_.front() may yield: the front element; on an empty queue
\* the call is undefined and may yield any record.
FrontValues(q) == IF q = <<>> THEN Entries \cup {EmptyEntry} ELSE {Front(q)}

\* Lines 32-37: return false when the queue is empty, else copy the front
\* into out, remove it and return true.  The lock is released on return.
\* A false return ends worker_loop (line 104); a true one enters write.
\* front() and pop() on an empty queue are undefined: any record may come
\* back and the queue stays without elements.
PopTest(w) ==
    /\ pc[w] = "test"
    /\ mutex_ = WorkerThread(w)
    /\ IF PopReturnsFalse(queue_, finished_)
       THEN /\ pc' = [pc EXCEPT ![w] = "done"]
            /\ UNCHANGED <<queue_, entry, popped, popped_by>>
       ELSE \E e \in FrontValues(queue_) :
            /\ entry' = [entry EXCEPT ![w] = PopOut(entry[w], e)]
            /\ queue_' = IF queue_ = <<>> THEN <<>> ELSE Dequeue(queue_)
            /\ popped' = Append(popped, e)
            /\ popped_by' = [popped_by EXCEPT ![w] = Append(@, e)]
            /\ pc' = [pc EXCEPT ![w] = "write"]
    /\ mutex_' = MutexAfterPop(mutex_)
    /\ UNCHANGED <<configVars, sink_mutex, finished_, mainVars, streamVars,
                   cerr_, pushed>>

\* ------------------------------------------------ OutputWriter::write (67-78)

\* The stream target_ points to.
Target == IF target_ = "cout" THEN cout_ ELSE file_

\* (*target_) << item
Insert(item) ==
    IF target_ = "cout"
    THEN cout_' = Append(cout_, item) /\ UNCHANGED file_
    ELSE file_' = Append(file_, item) /\ UNCHANGED cout_

\* Mutant: write does not take the mutex.
WriteMayEnter_unlocked(owner) == TRUE

\* Whether write may enter its body: std::lock_guard<std::mutex> lock(mutex_).
WriteMayEnter(owner) == owner = Free

WriteLock(w) ==
    /\ pc[w] = "write"
    /\ WriteMayEnter(sink_mutex)
    /\ sink_mutex' = WorkerThread(w)
    /\ pc' = [pc EXCEPT ![w] = "w_body"]
    /\ UNCHANGED <<configVars, queueVars, entry, mainVars, streamVars, cerr_,
                   pushed, popped, popped_by>>

\* Lines 69-72: "[" timestamp "] " level ' ' service ' ' message.
WriteBody(w) ==
    /\ pc[w] = "w_body"
    /\ Insert(Piece("line", entry[w], -1))
    /\ written_by' = [written_by EXCEPT ![w] = Append(@, entry[w])]
    /\ pc' = [pc EXCEPT ![w] = "w_suffix"]
    /\ UNCHANGED <<configVars, sink_mutex, queueVars, entry, mainVars, flushed,
                   cerr_, pushed, popped, popped_by>>

\* Lines 73-75: " (worker " worker_id ")" when the target is std::cout.
WriteSuffix(w) ==
    /\ pc[w] = "w_suffix"
    /\ IF target_ = "cout"
       THEN Insert(Piece("worker", EmptyEntry, w))
       ELSE UNCHANGED <<cout_, file_>>
    /\ pc' = [pc EXCEPT ![w] = "w_newline"]
    /\ UNCHANGED <<configVars, sink_mutex, queueVars, entry, mainVars, flushed,
                   written_by, cerr_, pushed, popped, popped_by>>

\* Line 76: '\n'.
WriteNewline(w) ==
    /\ pc[w] = "w_newline"
    /\ Insert(Piece("newline", EmptyEntry, -1))
    /\ pc' = [pc EXCEPT ![w] = "w_flush"]
    /\ UNCHANGED <<configVars, sink_mutex, queueVars, entry, mainVars, flushed,
                   written_by, cerr_, pushed, popped, popped_by>>

\* Lines 77-78: flush, release the mutex, return to worker_loop's next pop.
WriteFlush(w) ==
    /\ pc[w] = "w_flush"
    /\ flushed' = Len(Target)
    /\ sink_mutex' = Free
    /\ pc' = [pc EXCEPT ![w] = "pop"]
    /\ UNCHANGED <<configVars, queueVars, entry, mainVars, cout_, file_,
                   written_by, cerr_, pushed, popped, popped_by>>

Worker(w) ==
    \/ PopLock(w)
    \/ PopWait(w)
    \/ PopRelock(w)
    \/ PopTest(w)
    \/ WriteLock(w)
    \/ WriteBody(w)
    \/ WriteSuffix(w)
    \/ WriteNewline(w)
    \/ WriteFlush(w)


\* ------------------------------------------------------------ main (109-152)

\* Lines 121-123: workers.emplace_back(worker_loop, ..., i); the new thread
\* starts worker_loop with its first call of pop.
Spawn ==
    /\ mpc = "spawn"
    /\ IF spawned < worker_count
       THEN /\ pc' = [pc EXCEPT ![spawned] = "pop"]
            /\ spawned' = spawned + 1
            /\ UNCHANGED mpc
       ELSE /\ mpc' = "open"
            /\ UNCHANGED <<pc, spawned>>
    /\ UNCHANGED <<configVars, sink_mutex, queueVars, entry, joined, nread,
                   lines, mentry, exit_code, streamVars, cerr_, pushed, popped,
                   popped_by>>

\* Lines 125-127: open the log file; report when it cannot be opened.
Open ==
    /\ mpc = "open"
    /\ IF infile_opens
       THEN /\ mpc' = "read"
            /\ UNCHANGED cerr_
       ELSE /\ mpc' = "mark"
            /\ cerr_' = Append(cerr_, Diag("Unable to open log file", <<>>))
    /\ UNCHANGED <<configVars, sink_mutex, queueVars, pc, entry, spawned,
                   joined, nread, lines, mentry, exit_code, streamVars, pushed,
                   popped, popped_by>>

\* Mutant: a malformed line ends the reading loop.
AfterMalformed_stops == "mark"

\* Where main goes on after reporting a malformed line: continue (line 140).
AfterMalformed == "read"

\* Lines 136-141: std::getline delivers a line of the set S, which parse_line
\* accepts (go on to push it) or rejects (report it and read on).
ReadLineFrom(S) ==
    /\ mpc = "read"
    /\ nread < MaxLines
    /\ \E line \in S :
          LET r == parse_line(line)
          IN  /\ lines' = Append(lines, line)
              /\ IF r.ok
                 THEN /\ mentry' = r.entry
                      /\ mpc' = "push"
                      /\ UNCHANGED cerr_
                 ELSE /\ cerr_' = Append(cerr_, Diag("Skipping malformed line", line))
                      /\ mpc' = AfterMalformed
                      /\ UNCHANGED mentry
    /\ nread' = nread + 1
    /\ UNCHANGED <<configVars, sink_mutex, queueVars, pc, entry, spawned,
                   joined, exit_code, streamVars, pushed, popped, popped_by>>

ReadLine == ReadLineFrom(InputLines)

\* Line 136: std::getline reaches the end of the file and the loop ends.
ReadEof ==
    /\ mpc = "read"
    /\ mpc' = "mark"
    /\ UNCHANGED <<configVars, sink_mutex, queueVars, pc, entry, spawned,
                   joined, nread, lines, mentry, exit_code, streamVars, cerr_,
                   pushed, popped, popped_by>>

\* ThreadSafeQueue::push, line 24: std::lock_guard<std::mutex> lock(mutex_).
PushLock ==
    /\ mpc = "push"
    /\ mutex_ = Free
    /\ mutex_' = MainThread
    /\ mpc' = "push_locked"
    /\ UNCHANGED <<configVars, sink_mutex, queue_, finished_, pc, entry,
                   spawned, joined, nread, lines, mentry, exit_code,
                   streamVars, cerr_, pushed, popped, popped_by>>

\* ThreadSafeQueue::push, lines 25-27: enqueue, notify one waiter, unlock.
Push ==
    /\ mpc = "push_locked"
    /\ queue_' = Enqueue(queue_, mentry)
    /\ pushed' = Append(pushed, mentry)
    /\ \E woken \in PushNotify(Waiters) : pc' = Wake(woken)
    /\ mutex_' = Free
    /\ mpc' = "read"
    /\ UNCHANGED <<configVars, sink_mutex, finished_, entry, spawned, joined,
                   nread, lines, mentry, exit_code, streamVars, cerr_, popped,
                   popped_by>>

\* ThreadSafeQueue::mark_finished, line 41 (called at line 128 or 145).
MarkLock ==
    /\ mpc = "mark"
    /\ mutex_ = Free
    /\ mutex_' = MainThread
    /\ mpc' = "mark_locked"
    /\ UNCHANGED <<configVars, sink_mutex, queue_, finished_, pc, entry,
                   spawned, joined, nread, lines, mentry, exit_code,
                   streamVars, cerr_, pushed, popped, popped_by>>

\* ThreadSafeQueue::mark_finished, lines 42-44: set the flag, notify all, unlock.
MarkFinished ==
    /\ mpc = "mark_locked"
    /\ finished_' = SetFinished(finished_)
    /\ \E woken \in MarkFinishedNotify(Waiters) : pc' = Wake(woken)
    /\ mutex_' = Free
    /\ mpc' = AfterMarkFinished
    /\ UNCHANGED <<configVars, sink_mutex, queue_, entry, spawned, joined,
                   nread, lines, mentry, exit_code, streamVars, cerr_, pushed,
                   popped, popped_by>>

\* Lines 129-131 and 146-148: t.join() returns once that worker has returned
\* from worker_loop.
Join ==
    /\ mpc = "join"
    /\ joined < worker_count
    /\ Joinable(pc[joined])
    /\ joined' = joined + 1
    /\ UNCHANGED <<configVars, sink_mutex, queueVars, pc, entry, mpc, spawned,
                   nread, lines, mentry, exit_code, streamVars, cerr_, pushed,
                   popped, popped_by>>

\* Line 132 (return 1) after the failed open, else lines 150-151: the
\* completion message on std::cout and return 0.
Finish ==
    /\ mpc = "join"
    /\ joined = worker_count
    /\ IF infile_opens
       THEN /\ cout_' = Append(cout_, Piece("Ingestion complete.", EmptyEntry, -1))
       ELSE UNCHANGED cout_
    /\ exit_code' = ExitCodeOf(infile_opens)
    /\ mpc' = "exit"
    /\ UNCHANGED <<configVars, sink_mutex, queueVars, pc, entry, spawned,
                   joined, nread, lines, mentry, file_, flushed, written_by,
                   cerr_, pushed, popped, popped_by>>

Main ==
    \/ Spawn
    \/ Open
    \/ ReadLine
    \/ ReadEof
    \/ PushLock
    \/ Push
    \/ MarkLock
    \/ MarkFinished
    \/ Join
    \/ Finish

Next ==
    \/ Main
    \/ \E w \in WorkerIds : Worker(w)
    \/ \E w \in WorkerIds : SpuriousWake(w)

Spec == Init /\ [][Next]_vars

\* Every thread that can take a step eventually takes one; a thread waiting
\* for a mutex gets it when the mutex is released again and again.  A
\* spurious wake-up is never guaranteed.
Fairness ==
    /\ SF_vars(Main)
    /\ \A w \in WorkerIds : SF_vars(Worker(w))

FairSpec == Spec /\ Fairness

\* mark_finished is a public method: a client of the queue may call it again
\* after it has returned.  QueueSpec is the pipeline with such a client.
MarkAgain ==
    /\ mpc = "join"
    /\ mpc' = "mark"
    /\ UNCHANGED <<configVars, sink_mutex, queueVars, pc, entry, spawned,
                   joined, nread, lines, mentry, exit_code, streamVars, cerr_,
                   pushed, popped, popped_by>>

NextQueue == Next \/ MarkAgain

QueueSpec == Init /\ [][NextQueue]_vars

\* ---------------------------------------------------- parse_line on any line

\* The characters of the explored lines: two letters, the space and the tab.
Alphabet == {"a", "b", " ", "\t"}

\* Every line of n characters over Alphabet.
LinesOfLength(n) == [1..n -> Alphabet]

\* The single-worker console run whose input opens.
InitParse ==
    /\ Init
    /\ worker_env = EnvNumber(1)
    /\ output_path = ""
    /\ infile_opens

\* The reading loop's first iteration, on any line of at most MaxLineLen
\* characters.
ReadFirstLine ==
    /\ nread = 0
    /\ \E n \in 0..MaxLineLen : ReadLineFrom(LinesOfLength(n))

NextParse == Spawn \/ Open \/ ReadFirstLine

\* Main up to and including the parse of the first line, for every line.
ParseSpec == InitParse /\ [][NextParse]_vars

\* ------------------------------------------------------------- properties

\* The workers inside write's locked section (lines 69-77).
InWrite == {w \in WorkerIds : pc[w] \in {"w_body", "w_suffix", "w_newline", "w_flush"}}

\* pop returns false to worker w in this step.
ReturnsExhausted(w) == pc[w] = "test" /\ pc'[w] = "done"

\* pop returns a record to worker w in this step.
ReturnsRecord(w) == pc[w] = "test" /\ pc'[w] = "write"

\* The queue is finished and empty.
Drained == finished_ /\ queue_ = <<>>

\* How often e occurs in the sequence s.
Count(e, s) == Cardinality({i \in DOMAIN s : s[i] = e})

\* How many lines rendered from e the target stream holds.
Written(e) ==
    Cardinality({i \in DOMAIN Target : Target[i].kind = "line" /\ Target[i].entry = e})

\* C1: pop never returns exhausted (false) in a state where the queue holds a
\* record, whether or not mark_finished has been called.
C1_DrainBeforeStop ==
    [][\A w \in WorkerIds : ReturnsExhausted(w) => queue_ = <<>>]_vars

\* C1 witness: mark_finished has been called while a record is still queued,
\* and a consumer holds the mutex at pop's test.
C1_Witness ==
    \E w \in WorkerIds : pc[w] = "test" /\ finished_ /\ queue_ # <<>>

\* C2: once the queue is finished and empty no pop returns a record any more,
\* and every consumer, also one that was blocked in pop, eventually returns
\* from pop with exhausted.
C2_ExhaustedAfterDrain ==
    /\ [][Drained => \A w \in WorkerIds : ~ReturnsRecord(w)]_vars
    /\ Drained ~> (\A w \in 0..(worker_count - 1) : pc[w] = "done")

\* C2 witness: the queue is finished and empty and two consumers that were
\* blocked in the wait have been woken and have not yet returned.
C2_Witness ==
    /\ Drained
    /\ Cardinality({w \in WorkerIds : pc[w] = "relock"}) >= 2

\* The pipeline has terminated: main has joined every worker and returned.
Terminated ==
    /\ mpc = "exit"
    /\ joined = worker_count
    /\ \A w \in 0..(worker_count - 1) : pc[w] = "done"

\* C3: under fair scheduling every worker returns from worker_loop and main's
\* joins complete, for every input and worker count; no state short of
\* termination is a deadlock.
C3_Terminates ==
    /\ <>Terminated
    /\ [](Terminated \/ ENABLED Next)

\* C3 witness: a run with two workers and two records has terminated.
C3_Witness == Terminated /\ worker_count >= 2 /\ Len(pushed) >= 2

\* The target stream is a sequence of rendered lines, the last one possibly
\* still being written: a line's text follows a newline (or starts the
\* stream), the worker suffix follows the text, the newline follows the
\* suffix on std::cout and the text in a file.
WellFormed(s) ==
    \A i \in DOMAIN s :
        LET prev == IF i = 1 THEN "newline" ELSE s[i - 1].kind
        IN  CASE s[i].kind = "line" -> prev \in {"newline", "Ingestion complete."}
              [] s[i].kind = "worker" -> prev = "line"
              [] s[i].kind = "newline" -> prev = (IF target_ = "cout" THEN "worker" ELSE "line")
              [] OTHER -> prev \in {"newline", "Ingestion complete."}

\* C4: at most one write call is in its render-append-flush section, and the
\* destination holds complete lines only, apart from the one being written.
C4_WriteExclusive ==
    /\ Cardinality(InWrite) <= 1
    /\ WellFormed(Target)
    /\ InWrite = {} =>
          \/ Target = <<>>
          \/ Target[Len(Target)].kind \in {"newline", "Ingestion complete."}

\* C4 witness: one worker is in the middle of its line while another has
\* called write and waits for the mutex.
C4_Witness ==
    \E w, v \in WorkerIds :
        /\ w # v
        /\ pc[w] \in {"w_suffix", "w_newline"}
        /\ pc[v] = "write"

\* C5: no record is written more often than it was pushed, every pushed
\* record is in the queue or was dequeued once, and when the pipeline has
\* terminated the written lines are the pushed records, as multisets.
C5_ExactlyOnce ==
    /\ Len(popped) + Len(queue_) = Len(pushed)
    /\ \A e \in Entries :
          /\ Written(e) <= Count(e, popped)
          /\ Count(e, popped) <= Count(e, pushed)
          /\ mpc = "exit" => Written(e) = Count(e, pushed)

\* C5 witness: the pipeline has terminated after one record was pushed twice
\* (two equal lines) and written twice.
C5_Witness ==
    /\ mpc = "exit"
    /\ \E e \in Entries : Count(e, pushed) = 2 /\ Written(e) = 2

\* C6: the records dequeued so far, in the order of the dequeues across all
\* consumers, are a prefix of the records in the order they were pushed.
C6_Fifo ==
    /\ Len(popped) <= Len(pushed)
    /\ popped = SubSeq(pushed, 1, Len(popped))

\* C6 witness: two different records were dequeued by two different workers.
C6_Witness ==
    /\ Len(popped) >= 2
    /\ popped[1] # popped[2]
    /\ \E w, v \in WorkerIds :
          w # v /\ entry[w] = popped[1] /\ entry[v] = popped[2]

\* C7: a worker has got exhausted from pop only if mark_finished has been
\* called and the queue is empty: while the producer is still reading and
\* pushing, no worker has terminated.
C7_ExhaustedOnlyWhenFinished ==
    \A w \in WorkerIds :
        pc[w] = "done" =>
            /\ finished_
            /\ queue_ = <<>>
            /\ mpc \in {"join", "exit"}

\* C7 witness: a worker is blocked in pop on a queue that is empty after a
\* record went through it, while the producer is still reading.
C7_Witness ==
    \E w \in WorkerIds :
        /\ pc[w] = "wait"
        /\ queue_ = <<>>
        /\ popped # <<>>
        /\ mpc = "read"
        /\ ~finished_


\* C8: a call of mark_finished on a queue that is already marked finished
\* changes neither the queue's contents nor the flag and wakes nobody, so
\* every later pop finds the state one call leaves.
C8_MarkFinishedIdempotent ==
    [][(mpc = "mark_locked" /\ mpc' # mpc /\ finished_) =>
          (queue_' = queue_ /\ finished_' = finished_ /\ pc' = pc)]_vars

\* C8 witness: mark_finished is about to run its body a second time, on a
\* queue that still holds a record.
C8_Witness == mpc = "mark_locked" /\ finished_ /\ queue_ # <<>>

C10_SourceUnavailable ==
    ~infile_opens =>
        /\ pushed = <<>> /\ popped = <<>> /\ queue_ = <<>>
        /\ cout_ = <<>> /\ file_ = <<>>
        /\ \A w \in WorkerIds : pc[w] # "write" /\ w \notin InWrite
        /\ mpc \in {"join", "exit"} => finished_
        /\ mpc = "exit" =>
              /\ exit_code = 1
              /\ \A w \in 0..(worker_count - 1) : pc[w] = "done"

\* C10 witness: main has returned after a failed open with two workers.
C10_Witness == ~infile_opens /\ mpc = "exit" /\ worker_count >= 2

\* ------------------------------------------------- whitespace-separated tokens

\* The positions where a token of s starts, and where one ends.
TokenStarts(s) ==
    {i \in 1..Len(s) : ~IsSpace(s[i]) /\ (i = 1 \/ IsSpace(s[i - 1]))}
TokenEnds(s) ==
    {i \in 1..Len(s) : ~IsSpace(s[i]) /\ (i = Len(s) \/ IsSpace(s[i + 1]))}

\* The number of tokens of s.
TokenCount(s) == Cardinality(TokenStarts(s))

\* The k-th smallest element of the set of numbers S.
Nth(S, k) == CHOOSE i \in S : Cardinality({j \in S : j < i}) = k - 1

\* The k-th token of s.
Token(s, k) == SubSeq(s, Nth(TokenStarts(s), k), Nth(TokenEnds(s), k))

\* A line is malformed when it has fewer than four tokens.
Malformed(line) == TokenCount(line) < 4

WellFormedLine(line) == ~Malformed(line)

\* The records of the well-formed lines read so far, in input order.
RecordsRead ==
    LET wf == SelectSeq(lines, WellFormedLine)
    IN  [i \in 1..Len(wf) |-> parse_line(wf[i]).entry]

\* The malformed-line diagnostics on std::cerr, in order.
SkipDiag(d) == d.kind = "Skipping malformed line"
SkippedLines ==
    LET ds == SelectSeq(cerr_, SkipDiag)
    IN  [i \in 1..Len(ds) |-> ds[i].text]

\* Main has parsed a record that it has not pushed yet.
PushPending == mpc \in {"push", "push_locked"}

\* The reading loop takes a line in this step.
ReadsLine == mpc = "read" /\ nread' = nread + 1

\* C11: a malformed line (fewer than four tokens, the empty line included) is
\* never pushed and gives no output line, only a diagnostic; reading goes on
\* with the next line, so the records pushed are exactly those of the
\* well-formed lines read, in order, and a run whose input opened ends with
\* mark_finished called, the completion message and exit code 0.
C11_MalformedSkipped ==
    /\ [](LET rs == RecordsRead
          IN  /\ IF PushPending
                 THEN rs = Append(pushed, mentry)
                 ELSE rs = pushed
              /\ SkippedLines = SelectSeq(lines, Malformed)
              /\ \A i \in DOMAIN Target :
                    Target[i].kind = "line" =>
                        \E k \in DOMAIN rs : rs[k] = Target[i].entry
              /\ Cardinality({i \in DOMAIN Target : Target[i].kind = "line"})
                    <= Len(rs)
              /\ (mpc = "exit" /\ infile_opens) =>
                    /\ finished_
                    /\ exit_code = 0
                    /\ cout_ # <<>>
                    /\ cout_[Len(cout_)].kind = "Ingestion complete.")
    /\ [][(ReadsLine /\ Malformed(lines'[Len(lines')])) =>
            /\ mpc' = "read"
            /\ pushed' = pushed
            /\ queue_' = queue_
            /\ Target' = Target]_vars

\* C11 witness: a run has ended successfully whose input held a malformed
\* line followed by a well-formed one, and the record of the latter was
\* pushed and written.
C11_Witness ==
    /\ mpc = "exit"
    /\ exit_code = 0
    /\ Len(lines) >= 2
    /\ Malformed(lines[1])
    /\ ~Malformed(lines[2])
    /\ pushed = <<parse_line(lines[2]).entry>>
    /\ Written(parse_line(lines[2]).entry) = 1

\* The sequence s without its last element.
AllButLast(s) == SubSeq(s, 1, Len(s) - 1)

\* The records of the lines in the target stream, in output order.
LinePiece(p) == p.kind = "line"
OutputLines ==
    LET ls == SelectSeq(Target, LinePiece)
    IN  [i \in 1..Len(ls) |-> ls[i].entry]

\* On the console: the records of the lines that carry worker w's annotation.
AnnotatedBy(w) ==
    LET at == {i \in DOMAIN cout_ :
                  /\ cout_[i].kind = "line"
                  /\ i < Len(cout_)
                  /\ cout_[i + 1].kind = "worker"
                  /\ cout_[i + 1].worker = w}
    IN  [k \in 1..Cardinality(at) |-> cout_[Nth(at, k)].entry]

\* The sum of the lengths of the sequences f[w], w in S.
RECURSIVE TotalLen(_, _)
TotalLen(f, S) ==
    IF S = {} THEN 0
    ELSE LET w == CHOOSE x \in S : TRUE
         IN  Len(f[w]) + TotalLen(f, S \ {w})

\* Worker w holds a dequeued record that it has not rendered yet.
RenderPending(w) == pc[w] \in {"write", "w_body"}

\* C12: the records a worker has rendered are, in order, the records it has
\* dequeued (all but the one it is about to render); on the console the lines
\* annotated with a worker are that worker's records in that order; with a
\* single worker the output follows the input order.
C12_WorkerOrder ==
    /\ \A w \in WorkerIds :
          /\ written_by[w] =
                IF RenderPending(w) THEN AllButLast(popped_by[w]) ELSE popped_by[w]
          /\ target_ = "cout" =>
                AnnotatedBy(w) =
                    IF pc[w] = "w_suffix" THEN AllButLast(written_by[w])
                    ELSE written_by[w]
    /\ Len(OutputLines) = TotalLen(written_by, WorkerIds)
    /\ worker_count = 1 => OutputLines = SubSeq(pushed, 1, Len(OutputLines))

\* C12 witness: with two workers running, one of them has dequeued two
\* different records and written both to the console.
C12_Witness ==
    /\ worker_count >= 2
    /\ target_ = "cout"
    /\ \E w \in WorkerIds :
          /\ Len(written_by[w]) = 2
          /\ written_by[w][1] # written_by[w][2]
          /\ AnnotatedBy(w) = popped_by[w]

\* With two workers the lines can come out in another order than the records
\* went in: a run has ended whose output order differs from the input order.
OutputReordered ==
    /\ worker_count >= 2
    /\ mpc = "exit"
    /\ Len(OutputLines) = Len(pushed)
    /\ OutputLines # pushed

\* The consumers inside cv_.wait: blocked, or woken and not yet holding the
\* mutex again.
InWait == {w \in WorkerIds : pc[w] \in {"wait", "relock"}}

\* The consumers at pop's statements that read or change the queue: the
\* evaluation of the wait predicate and lines 32-37.
AtQueue == {w \in WorkerIds : pc[w] \in {"locked", "test"}}

\* C13: a consumer inside pop's wait does not hold the queue's mutex; the
\* mutex is held by a consumer exactly while it evaluates the predicate or
\* executes lines 32-37; when every consumer inside pop is in the wait the
\* producer's lock in push or mark_finished can be taken; a woken consumer
\* takes the free mutex and then evaluates the predicate, and only a consumer
\* that holds the mutex removes a record.
C13_WaitReleasesMutex ==
    /\ [](/\ \A w \in InWait : mutex_ # WorkerThread(w)
          /\ \A w \in WorkerIds : mutex_ = WorkerThread(w) <=> w \in AtQueue
          /\ (mpc = "push" /\ AtQueue = {}) => ENABLED PushLock
          /\ (mpc = "mark" /\ AtQueue = {}) => ENABLED MarkLock)
    /\ [][\A w \in WorkerIds :
            /\ (pc[w] = "relock" /\ pc'[w] # "relock") =>
                  /\ mutex_ = Free
                  /\ mutex_' = WorkerThread(w)
                  /\ pc'[w] = "locked"
                  /\ queue_' = queue_
            /\ (pc[w] = "wait" /\ pc'[w] # "wait") => pc'[w] = "relock"
            /\ ReturnsRecord(w) => mutex_ = WorkerThread(w)]_vars

\* C13 witness: two consumers are blocked in pop and the producer holds the
\* mutex inside push.
C13_Witness ==
    /\ mpc = "push_locked"
    /\ mutex_ = MainThread
    /\ Cardinality(Waiters) >= 2

\* The step in which push enqueues, notifies and returns (lines 25-27).
PushReturns == mpc = "push_locked" /\ mpc' = "read"

\* C14: push, once it holds the mutex, can always complete, and its step
\* appends the record whatever the queue's length (no capacity, no failure);
\* when consumers are blocked in pop that step wakes at least one of them;
\* and under fair scheduling the k-th record pushed is eventually dequeued.
C14_PushWakesAndDelivers ==
    /\ [](mpc = "push_locked" => ENABLED Push)
    /\ [][PushReturns =>
            /\ queue_' = Append(queue_, mentry)
            /\ pushed' = Append(pushed, mentry)
            /\ Waiters # {} => \E w \in Waiters : pc'[w] = "relock"]_vars
    /\ \A k \in 1..MaxLines : (Len(pushed) >= k) ~> (Len(popped) >= k)

\* C14 witness: one record has been pushed and is still queued while two
\* consumers were blocked: one has been woken, the other still waits.
C14_Witness ==
    /\ Len(pushed) = 1
    /\ queue_ = pushed
    /\ mpc = "read"
    /\ ~finished_
    /\ \E w, v \in WorkerIds : w # v /\ pc[w] = "relock" /\ pc[v] = "wait"

\* The positions of the rendered lines in the stream s.
LinesIn(s) == {i \in DOMAIN s : s[i].kind = "line"}

\* The line at position i of s carries a worker annotation.
Annotated(s, i) == i < Len(s) /\ s[i + 1].kind = "worker"

\* The line at position i of the target is the one a write call has rendered
\* and not yet gone past the annotation step.
BeingWritten(i) == i = Len(Target) /\ \E w \in WorkerIds : pc[w] = "w_suffix"

OpenDiag(d) == d.kind = "Unable to open output file"

\* C15: the destination is the file exactly when a non-empty path was given
\* and opened, else the console (with one diagnostic at construction when the
\* open failed); it never changes; lines go to the destination only; and a
\* written line carries the worker annotation exactly when the destination is
\* the console.
C15_DestinationFixed ==
    /\ [](/\ target_ = "file" <=> output_path = "openable"
          /\ target_ = "cout" <=> output_path \in {"", "unopenable"}
          /\ Len(SelectSeq(cerr_, OpenDiag)) =
                (IF output_path = "unopenable" THEN 1 ELSE 0)
          /\ target_ = "file" => LinesIn(cout_) = {}
          /\ target_ = "cout" => file_ = <<>>
          /\ \A i \in LinesIn(Target) :
                BeingWritten(i) \/ (Annotated(Target, i) <=> target_ = "cout"))
    /\ [][target_' = target_]_vars

\* C15 witness: the path given did not open, the run has ended, and two
\* lines went to the console, each with its annotation.
C15_Witness ==
    /\ output_path = "unopenable"
    /\ mpc = "exit"
    /\ Cardinality(LinesIn(cout_)) = 2
    /\ \A i \in LinesIn(cout_) : Annotated(cout_, i)

\* The worker threads that have been created.
Running == {w \in WorkerIds : pc[w] # "unborn"}

\* The pool size the configuration asks for: the default when WORKER_COUNT is
\* unset or not a number, 1 for a number below 1, else the number.
RequestedWorkers(env) ==
    IF ~env.set \/ ~env.numeric THEN DefaultWorkerCount
    ELSE IF env.val <= 0 THEN 1
    ELSE env.val

\* The pool is positive, follows a numeric or missing WORKER_COUNT, and the
\* threads created are 0 .. spawned-1, all worker_count of them once the
\* spawning loop is over.
WorkerPoolShape ==
    /\ worker_count >= 1
    /\ worker_env.numeric => worker_count = RequestedWorkers(worker_env)
    /\ WorkerCountOf(EnvUnset) = DefaultWorkerCount
    /\ Running = 0..(spawned - 1)
    /\ spawned <= worker_count
    /\ mpc # "spawn" => spawned = worker_count

\* C16: the pool runs with a positive number of workers: 1 for a requested
\* count of 0 or less, n for a requested positive n, the default constant for
\* an unset or invalid count; the workers are 0 .. n-1.
C16_WorkerCountClamp ==
    /\ worker_count >= 1
    /\ worker_count = RequestedWorkers(worker_env)
    /\ Running = 0..(spawned - 1)
    /\ mpc # "spawn" => Running = 0..(worker_count - 1)

\* The text of line after its fourth token.
AfterFourth(line) == SubSeq(line, Nth(TokenEnds(line), 4) + 1, Len(line))

\* msg is rest with its leading space removed if it has one, else rest.
OneSpaceRemoved(rest, msg) ==
    IF rest # <<>> /\ rest[1] = " " THEN rest = <<" ">> \o msg ELSE msg = rest

\* C17: parse_line accepts a line exactly when it has at least four
\* whitespace-separated tokens; the record then holds timestamp = first token,
\* a space, second token; level = third token; service = fourth token;
\* message = the text after the fourth token less one leading space if there
\* is one (empty when nothing follows); a rejected line leaves main in the
\* reading loop with a diagnostic that carries the line.
C17_ParseLine ==
    Len(lines) = 1 =>
        LET line == lines[1]
        IN  /\ mpc = "push" <=> TokenCount(line) >= 4
            /\ mpc = "read" <=> TokenCount(line) < 4
            /\ parse_line(line).ok <=> TokenCount(line) >= 4
            /\ TokenCount(line) >= 4 =>
                  /\ mentry.timestamp = Token(line, 1) \o <<" ">> \o Token(line, 2)
                  /\ mentry.level = Token(line, 3)
                  /\ mentry.service = Token(line, 4)
                  /\ OneSpaceRemoved(AfterFourth(line), mentry.message)
                  /\ TokenCount(line) = 4 /\ Nth(TokenEnds(line), 4) = Len(line)
                        => mentry.message = <<>>
                  /\ cerr_ = <<>>
            /\ TokenCount(line) < 4 =>
                  /\ mentry = EmptyEntry
                  /\ cerr_ = <<Diag("Skipping malformed line", line)>>

\* C17 witness: a line with a tab between two tokens and a message after
\* the fourth token has been parsed into its record.
C17_Witness ==
    /\ Len(lines) = 1
    /\ mpc = "push"
    /\ \E i \in DOMAIN lines[1] : lines[1][i] = "\t"
    /\ mentry.message = <<"b">>
    /\ mentry.level = <<"a">>

\* The consumers that have yet to find out whether there is a record for
\* them: woken and about to reacquire the mutex, or holding it before the
\* predicate is evaluated.
Woken == {w \in WorkerIds : pc[w] \in {"relock", "locked"}}

\* C18: pop reads the front element and removes it only from a non-empty
\* queue: whenever pop hands out a record the queue held one, the record is
\* its front element and exactly that element is removed; a consumer that
\* finds the queue empty after the wait leaves without touching it.
C18_NoUnderflow ==
    /\ [][\A w \in WorkerIds :
            /\ ReturnsRecord(w) =>
                  /\ queue_ # <<>>
                  /\ entry'[w] = Head(queue_)
                  /\ queue_' = Tail(queue_)
            /\ (pc[w] = "test" /\ pc'[w] # "test" /\ queue_ = <<>>) =>
                  /\ pc'[w] = "done"
                  /\ queue_' = <<>>
                  /\ popped' = popped]_vars
    /\ [](Len(popped) + Len(queue_) = Len(pushed))

\* C18 witness: the only record has been taken, the queue is empty and not
\* finished, and two consumers are on their way to it: one holds the mutex
\* and is about to evaluate the predicate, the other is about to reacquire it.
C18_Witness ==
    /\ queue_ = <<>>
    /\ ~finished_
    /\ Len(popped) = 1
    /\ \E u, v \in Woken : pc[u] = "locked" /\ pc[v] = "relock"

\* The threads that hold the queue's mutex and the sink's mutex.
QueueHolder(t) == mutex_ = t
SinkHolder(t) == sink_mutex = t

\* C19: no thread holds the queue's mutex and the sink's mutex together: the
\* sink's mutex is held exactly by the worker inside write's locked section,
\* who does not hold the queue's mutex, main never holds the sink's mutex, a
\* worker enters write after pop has released the queue's mutex and calls pop
\* after write has released the sink's; so with a worker in write the queue's
\* mutex is free unless main or a worker inside pop holds it.
C19_NoNestedLocks ==
    /\ [](/\ \A w \in WorkerIds :
                /\ ~(QueueHolder(WorkerThread(w)) /\ SinkHolder(WorkerThread(w)))
                /\ SinkHolder(WorkerThread(w)) <=> w \in InWrite
                /\ (pc[w] = "write" \/ w \in InWrite) => ~QueueHolder(WorkerThread(w))
                /\ w \in AtQueue \cup InWait => ~SinkHolder(WorkerThread(w))
          /\ ~SinkHolder(MainThread)
          /\ (AtQueue = {} /\ mpc \notin {"push_locked", "mark_locked"})
                => QueueHolder(Free))
    /\ [][\A w \in WorkerIds :
            /\ (pc[w] = "write" /\ pc'[w] = "w_body") => ~QueueHolder(WorkerThread(w))
            /\ (pc[w] = "pop" /\ pc'[w] = "locked") => ~SinkHolder(WorkerThread(w))
            /\ (pc[w] = "w_flush" /\ pc'[w] = "pop") => sink_mutex' = Free]_vars

\* C19 witness: one worker is inside write's locked section while another
\* worker holds the queue's mutex in pop and main is about to push.
C19_Witness ==
    /\ mpc = "push"
    /\ \E w, v \in WorkerIds :
          /\ w # v
          /\ w \in InWrite
          /\ SinkHolder(WorkerThread(w))
          /\ QueueHolder(WorkerThread(v))

\* The positions of the completion message on std::cout.
Completions == {i \in DOMAIN cout_ : cout_[i].kind = "Ingestion complete."}

\* What holds when the completion message is emitted: mark_finished has been
\* called, every worker has returned, no write call is in progress or
\* pending, and every pushed record has been dequeued, written and flushed.
AllDone ==
    /\ finished_
    /\ \A w \in 0..(worker_count - 1) : pc[w] = "done"
    /\ Running = 0..(worker_count - 1)
    /\ InWrite = {}
    /\ \A w \in WorkerIds : pc[w] # "write"
    /\ sink_mutex = Free
    /\ queue_ = <<>>
    /\ popped = pushed
    /\ \A e \in Entries : Written(e) = Count(e, pushed)
    /\ \A i \in LinesIn(Target) : i < flushed

\* C20: the completion message is emitted at most once, as the last item on
\* std::cout, and only in a state where mark_finished has been called, every
\* worker has terminated and every pushed record has been written, so never
\* while a write call is in flight; that stays so once it is emitted.
C20_CompletionLast ==
    /\ [](Completions # {} =>
            /\ Completions = {Len(cout_)}
            /\ mpc = "exit"
            /\ AllDone)
    /\ [][Completions' # Completions => AllDone /\ AllDone']_vars

\* C20 witness: two workers have written two records to the console, and the
\* completion message follows them.
C20_Witness ==
    /\ Completions # {}
    /\ target_ = "cout"
    /\ worker_count >= 2
    /\ Len(pushed) >= 2
    /\ \A w \in 0..1 : Len(written_by[w]) = 1

====
